---- MODULE Spec2Model ----
(***************************************************************************)
(* Model of graph-explorer's edge styling: the EdgeStylingProvider         *)
(* preference store (load / save effects, setAllStyling, useEdgeStyling)   *)
(* and the useGraphStyles style resolution effect.                         *)
(***************************************************************************)
EXTENDS Integers, Sequences, FiniteSets, TLC

(* ------------------------------------------------------------------ *)
(* Bounds and input domains                                           *)
(* ------------------------------------------------------------------ *)

\* How many setEdgeStyle / resetEdgeStyle calls a behaviour may make.
MaxMutations == 3

\* The inputs of useGraphStyles stop changing once this many passes have been
\* triggered.
MaxPasses == 2

\* Edge type ids the callers of useEdgeStyling(type) use.
Types == {"knows", "likes"}

\* UpdatedEdgeStyle arguments of setEdgeStyle: partial EdgePreferences without "type".
UpdatedStyles ==
    { [lineColor |-> "#112233"],
      [lineStyle |-> "dotted"],
      [lineColor |-> "#000000", lineStyle |-> "dashed"] }

\* The UserStyling record as read through `.edges`: hasEdges is FALSE when
\* `edges` is undefined (the initial `{}`).
EmptyStyling == [hasEdges |-> FALSE, edges |-> <<>>]

Styling(es) == [hasEdges |-> TRUE, edges |-> es]

\* What localForage may hold under "user-styling" when the provider mounts:
\* nothing (null), or a UserStyling record written earlier.
NoRecord == [present |-> FALSE, value |-> EmptyStyling]

Record(v) == [present |-> TRUE, value |-> v]

StoredRecords ==
    { NoRecord,
      Record(EmptyStyling),
      Record(Styling(<<>>)),
      Record(Styling(<<[type |-> "knows", lineColor |-> "#000000"]>>)),
      Record(Styling(<<[type |-> "likes", lineStyle |-> "solid"],
                       [type |-> "knows", lineStyle |-> "dashed"]>>)),
      Record(Styling(<<[type |-> "knows", lineColor |-> "#000000"],
                       [type |-> "knows", lineStyle |-> "solid"]>>)) }

\* VertexTypeConfig values the configuration source supplies.
Person == [type |-> "Person", color |-> "#112233", borderWidth |-> 2]

Company == [type |-> "Company", color |-> "#445566", shape |-> "ellipse"]


\* EdgeTypeConfig values the configuration source supplies.
Knows == [type |-> "knows", lineColor |-> "#000000", lineStyle |-> "solid",
          lineThickness |-> 1]

KnowsDotted == [type |-> "knows", lineColor |-> "#112233", lineStyle |-> "dotted",
                lineThickness |-> 1]

\* The <<vertex type configs, edge type configs>> the source may supply.
ConfigChoices ==
    { << <<>>, <<Knows>> >>,
      << <<Person>>, <<Knows>> >>,
      << <<Person, Company>>, <<Knows>> >>,
      << <<Person>>, <<KnowsDotted>> >> }

\* States of the live edge registry: logical edge id -> DisplayEdge.
DisplayEdgesChoices ==
    { [e \in {} |-> [displayName |-> ""]],
      [e \in {"e1"} |-> [displayName |-> "Knows"]] }

\* Arguments of the useEdgeStyling calls made while the graph is shown.
EngineTypes == {"knows"}

EngineStyles == { [lineColor |-> "#112233"], [lineStyle |-> "dotted"] }

EngineStoredRecords ==
    { NoRecord,
      Record(Styling(<<[type |-> "knows", lineColor |-> "#000000"]>>)) }

\* Type configs and stored override records over which the rule construction
\* is checked field by field.
Place == [type |-> "Place", color |-> "#c0c0c0", borderWidth |-> 0]

KnowsDashed == [type |-> "knows", lineColor |-> "#445566", lineStyle |-> "dashed",
                lineThickness |-> 2, sourceArrowStyle |-> "none",
                targetArrowStyle |-> "triangle", labelColor |-> "#ffffff",
                labelBorderWidth |-> 1]

KnowsBare == [type |-> "knows"]

HasLongName == [type |-> "hasAVeryLongRelationshipName", lineColor |-> "#000000"]

Likes == [type |-> "likes", lineColor |-> "#112233", lineStyle |-> "dashed",
          lineThickness |-> 3]

RuleVertexConfigs ==
    { <<Person>>, <<Company>>, <<Place>>, <<Person, Place>> }

RuleEdgeConfigs ==
    { <<Knows>>, <<KnowsDotted>>, <<KnowsDashed>>, <<KnowsBare>>, <<Knows, Likes>>,
      <<HasLongName>> }

RuleStoredRecords ==
    { NoRecord,
      Record(Styling(<<>>)),
      Record(Styling(<<[type |-> "knows", lineThickness |-> 4]>>)),
      Record(Styling(<<[type |-> "knows", lineStyle |-> "dotted",
                        lineColor |-> "#112233"]>>)),
      Record(Styling(<<[type |-> "likes", lineStyle |-> "solid"],
                       [type |-> "knows", lineStyle |-> "solid",
                        targetArrowStyle |-> "none", labelColor |-> "#000000"]>>)),
      Record(Styling(<<[type |-> "knows", lineColor |-> "#000000"],
                       [type |-> "knows", lineStyle |-> "solid"]>>)) }

(* ------------------------------------------------------------------ *)
(* State                                                              *)
(* ------------------------------------------------------------------ *)

VARIABLES
    heap,        \* the UserStyling objects allocated so far, by reference
    allStyling,  \* useState<UserStyling>: reference of the current object
    isLoading,   \* useState(true)
    loadPc,      \* position of loadData: init, awaiting, resolved, rejected, done
    stored,      \* what localForage.getItem resolved with
    outcome,     \* how localForage.getItem settled: none, resolved, rejected
    durable,     \* the record localForage holds under "user-styling"
    reads,       \* localForage.getItem calls issued
    writes,      \* payloads of the localForage.setItem calls issued, in order
    landed,      \* the setItem calls that settled, in that order, and how
    outside,     \* the last hook call made with no provider above, and how it ended
    mutations,   \* setEdgeStyle / resetEdgeStyle calls made
    lastOp       \* the last such call, and what get(type) returned before it

VARIABLES
    vtConfigs,          \* useVertexTypeConfigs()
    etConfigs,          \* useEdgeTypeConfigs()
    deferredVtConfigs,  \* useDeferredValue(vtConfigs)
    deferredEtConfigs,  \* useDeferredValue(etConfigs)
    displayEdges,       \* useDisplayEdgesInCanvas()
    passes,             \* every run of the effect's async function, in trigger order
    styles,             \* useState<GraphProps["styles"]>({})
    settled             \* the passes that called setStyles, in that order

storeVars ==
    <<heap, allStyling, isLoading, loadPc, stored, outcome, durable, reads,
      writes, landed, outside, mutations, lastOp>>

engineVars ==
    <<vtConfigs, etConfigs, deferredVtConfigs, deferredEtConfigs, displayEdges,
      passes, styles, settled>>

vars == <<storeVars, engineVars>>

(* ------------------------------------------------------------------ *)
(* Pure helpers                                                       *)
(* ------------------------------------------------------------------ *)

\* Object spread { ...a, ...b }: b's own fields win.
Spread(a, b) ==
    [k \in (DOMAIN a) \cup (DOMAIN b) |-> IF k \in DOMAIN b THEN b[k] ELSE a[k]]

NoEntry == [type |-> ""]

\* Array.prototype.find(v => v.type === type): the first match, or undefined.
Find(es, type) ==
    LET hits == {i \in 1..Len(es) : es[i].type = type}
    IN  IF hits = {}
        THEN [found |-> FALSE, entry |-> NoEntry]
        ELSE [found |-> TRUE,
              entry |-> es[CHOOSE i \in hits : \A j \in hits : i <= j]]

\* Array.prototype.some(v => v.type === type)
Some(es, type) == \E i \in 1..Len(es) : es[i].type = type

\* Array.prototype.filter(v => v.type !== type)
Filter(es, type) == SelectSeq(es, LAMBDA v : v.type # type)

\* edgeStyle = allStyling.edges?.find(v => v.type === type)
edgeStyle(styling, type) ==
    IF styling.hasEdges
    THEN Find(styling.edges, type)
    ELSE [found |-> FALSE, entry |-> NoEntry]

\* setEdgeStyle with the spread written the other way round: the existing
\* entry's fields win over the update's.
setEdgeStyleExistingWins(prev, type, updatedStyle) ==
    IF prev.hasEdges /\ Some(prev.edges, type)
    THEN Styling([i \in 1..Len(prev.edges) |->
                    IF prev.edges[i].type = type
                    THEN Spread(updatedStyle, prev.edges[i])
                    ELSE prev.edges[i]])
    ELSE Styling(Append(IF prev.hasEdges THEN prev.edges ELSE <<>>,
                        Spread([type |-> type], updatedStyle)))

\* The updater setEdgeStyle hands to setAllStyling.
setEdgeStyle(prev, type, updatedStyle) ==
    IF prev.hasEdges /\ Some(prev.edges, type)
    THEN Styling([i \in 1..Len(prev.edges) |->
                    IF prev.edges[i].type = type
                    THEN Spread(prev.edges[i], updatedStyle)
                    ELSE prev.edges[i]])
    ELSE Styling(Append(IF prev.hasEdges THEN prev.edges ELSE <<>>,
                        Spread([type |-> type], updatedStyle)))

\* prev.edges = []: a reset that drops every override, not only those of `type`.
resetEdgeStyleAll(prev, type) ==
    IF prev.hasEdges THEN Styling(<<>>) ELSE prev

\* The updater resetEdgeStyle hands to setAllStyling.
resetEdgeStyle(prev, type) ==
    IF prev.hasEdges THEN Styling(Filter(prev.edges, type)) ELSE prev

\* setAllStyling without the clone: the updater works on prev itself.
cloneOmitted(ref) == ref

\* lodash clone(prev): a new object, so a new reference.
clone(ref) == Len(heap) + 1

\* The save effect without its `if (!isLoading)` guard.
SaveEffectUnguarded(stylingChanged, loadingChanged, loading, payload, issued) ==
    IF stylingChanged \/ loadingChanged
    THEN Append(issued, payload)
    ELSE issued

\* The save effect with deps [allStyling] only.
SaveEffectStylingDepOnly(stylingChanged, loadingChanged, loading, payload, issued) ==
    IF stylingChanged /\ ~loading
    THEN Append(issued, payload)
    ELSE issued

\* The save effect, run after a commit in which one of its deps
\* [allStyling, isLoading] changed: setItem unless still loading.
SaveEffect(stylingChanged, loadingChanged, loading, payload, issued) ==
    IF (stylingChanged \/ loadingChanged) /\ ~loading
    THEN Append(issued, payload)
    ELSE issued

\* A catch handler that calls setItem again with the payload that failed.
setItemCatchRetry(issued, payload) == Append(issued, payload)

\* .catch(error => console.error(...)): the rejection is logged and nothing
\* else is done; no setItem is issued.
setItemCatch(issued, payload) == issued

\* loadData without its `if (stored)` test: null is stored as the state too.
loadDataSetsUnchecked(pc, got) == pc = "resolved"

\* loadData after `await localForage.getItem`: the state it sets, if any.
loadDataSets(pc, got) == pc = "resolved" /\ got.present

\* loadData with setIsLoading(false) at the end of the `try` block only.
loadDataNoFinally(pc, loading) == IF pc = "resolved" THEN FALSE ELSE loading

\* loadData's `finally`: setIsLoading(false) on every outcome.
loadDataFinally(pc, loading) == FALSE

(* ------------------------------------------------------------------ *)
(* Actions of the preference store                                    *)
(* ------------------------------------------------------------------ *)

\* The value useContext(EdgeStylingContext) gives: the provider's value, or
\* the createContext default, undefined, when no provider is above.
NoProvider == [provided |-> FALSE]

ProviderValue(ref, loading) ==
    [provided |-> TRUE, allStyling |-> ref, isLoading |-> loading]

\* Hook calls a component can make: useEdgeStyling(type), for its edgeStyle,
\* setEdgeStyle or resetEdgeStyle, and useAllUserStyling().
HookCalls ==
    { [api |-> "get", type |-> "knows"],
      [api |-> "upsert", type |-> "knows"],
      [api |-> "reset", type |-> "likes"],
      [api |-> "all", type |-> ""] }

NoCall == [api |-> "none", type |-> "", threw |-> FALSE, returned |-> FALSE]

\* useEdgeStylingContext with a fallback value in place of the throw.
useEdgeStylingContextDefaulting(context) ==
    [threw |-> FALSE,
     value |-> IF context.provided THEN context ELSE ProviderValue(1, FALSE)]

\* useEdgeStylingContext(): throws when the context is undefined.
useEdgeStylingContext(context) ==
    IF ~context.provided
    THEN [threw |-> TRUE, value |-> context]
    ELSE [threw |-> FALSE, value |-> context]

\* useEdgeStyling(type) / useAllUserStyling(): the first statement is
\* useEdgeStylingContext(); a throw there ends the call.
UseHook(call, context) ==
    LET ctx == useEdgeStylingContext(context)
    IN  [api |-> call.api, type |-> call.type, threw |-> ctx.threw,
         returned |-> ~ctx.threw]

NoOp == [kind |-> "none", type |-> "", style |-> [lineColor |-> ""],
         loading |-> TRUE, prior |-> [found |-> FALSE, entry |-> NoEntry]]

StoreInit ==
    /\ heap = <<EmptyStyling>>
    /\ allStyling = 1
    /\ isLoading = TRUE
    /\ loadPc = "init"
    /\ stored = NoRecord
    /\ outcome = "none"
    /\ durable \in StoredRecords
    /\ reads = 0
    /\ writes = <<>>
    /\ landed = <<>>
    /\ outside = NoCall
    /\ mutations = 0
    /\ lastOp = NoOp

\* The provider's effects on mount: loadData() is called and issues the read;
\* the save effect runs with isLoading still true.
MountEffects ==
    /\ loadPc = "init"
    /\ loadPc' = "awaiting"
    /\ reads' = reads + 1
    /\ writes' = SaveEffect(TRUE, TRUE, isLoading, heap[allStyling], writes)
    /\ UNCHANGED <<heap, allStyling, isLoading, stored, outcome, durable, landed, outside,
                   mutations, lastOp>>

\* localForage.getItem settles: it resolves with the record (or null), or rejects.
GetItemSettles ==
    /\ loadPc = "awaiting"
    /\ \/ loadPc' = "resolved" /\ stored' = durable
       \/ loadPc' = "rejected" /\ stored' = NoRecord
    /\ outcome' = loadPc'
    /\ UNCHANGED <<heap, allStyling, isLoading, durable, landed, outside, reads, writes, mutations, lastOp>>

\* The rest of loadData, then the commit and the save effect.
LoadData ==
    /\ loadPc \in {"resolved", "rejected"}
    /\ loadPc' = "done"
    /\ IF loadDataSets(loadPc, stored)
       THEN /\ heap' = Append(heap, stored.value)
            /\ allStyling' = Len(heap) + 1
       ELSE UNCHANGED <<heap, allStyling>>
    /\ isLoading' = loadDataFinally(loadPc, isLoading)
    /\ writes' = SaveEffect(allStyling' # allStyling, isLoading' # isLoading,
                            isLoading', heap'[allStyling'], writes)
    /\ UNCHANGED <<stored, outcome, durable, landed, outside, reads, mutations, lastOp>>

\* The i-th localForage.setItem settles: it resolves, and the record is what
\* localForage holds from then on, or it rejects and the catch handler runs.
SetItemSettles(i, ok) ==
    /\ i \in 1..Len(writes)
    /\ \A j \in 1..Len(landed) : landed[j].write # i
    /\ landed' = Append(landed, [write |-> i, ok |-> ok])
    /\ durable' = IF ok THEN Record(writes[i]) ELSE durable
    /\ writes' = IF ok THEN writes ELSE setItemCatch(writes, writes[i])
    /\ UNCHANGED <<heap, allStyling, isLoading, loadPc, stored, outcome, reads,
                   outside, mutations, lastOp>>

\* A component with no EdgeStylingProvider above it renders and calls a hook.
OutsideUse(call) ==
    /\ outside' = UseHook(call, NoProvider)
    /\ UNCHANGED <<heap, allStyling, isLoading, loadPc, stored, outcome, durable,
                   landed, reads, writes, mutations, lastOp>>

\* setAllStyling(updater): the updater's result, computed on clone(prev), becomes
\* the state; a new reference re-renders and the save effect runs.
SetAllStyling(next) ==
    LET ref == clone(allStyling)
    IN  /\ heap' = IF ref > Len(heap) THEN Append(heap, next)
                   ELSE [heap EXCEPT ![ref] = next]
        /\ allStyling' = ref
        /\ writes' = SaveEffect(ref # allStyling, FALSE, isLoading, next, writes)

SetEdgeStyle(type, updatedStyle) ==
    /\ loadPc # "init"
    /\ mutations < MaxMutations
    /\ SetAllStyling(setEdgeStyle(heap[allStyling], type, updatedStyle))
    /\ mutations' = mutations + 1
    /\ lastOp' = [kind |-> "upsert", type |-> type, style |-> updatedStyle,
                  loading |-> isLoading, prior |-> edgeStyle(heap[allStyling], type)]
    /\ UNCHANGED <<isLoading, loadPc, stored, outcome, durable, landed, outside, reads>>

ResetEdgeStyle(type) ==
    /\ loadPc # "init"
    /\ mutations < MaxMutations
    /\ SetAllStyling(resetEdgeStyle(heap[allStyling], type))
    /\ mutations' = mutations + 1
    /\ lastOp' = [kind |-> "reset", type |-> type, style |-> [lineColor |-> ""],
                  loading |-> isLoading, prior |-> edgeStyle(heap[allStyling], type)]
    /\ UNCHANGED <<isLoading, loadPc, stored, outcome, durable, landed, outside, reads>>

(* ------------------------------------------------------------------ *)
(* The style resolution effect of useGraphStyles                      *)
(* ------------------------------------------------------------------ *)

EmptyMap == [x \in {} |-> 0]

\* An object property that is set only when the source value is defined.
Opt(key, obj, field) ==
    IF field \in DOMAIN obj THEN key :> obj[field] ELSE EmptyMap

\* renderNode(client, vtConfig): the image descriptor the asset renderer
\* resolves with for a vertex type.
renderNode(vtConfig) ==
    IF vtConfig.type = "Person" THEN "dataA" ELSE "dataB"

\* new Color(c).isDark() for the colours in use.
isDark(color) == color \in {"#17457b", "#000000", "#112233", "#445566"}

\* LINE_PATTERN with the dashed and dotted patterns exchanged.
LINE_PATTERNExchanged(lineStyle) ==
    IF lineStyle = "dashed" THEN "line-dash-pattern" :> <<1, 2>>
    ELSE IF lineStyle = "dotted" THEN "line-dash-pattern" :> <<5, 6>>
    ELSE EmptyMap

\* LINE_PATTERN[lineStyle]; solid has none.
LINE_PATTERN(lineStyle) ==
    IF lineStyle = "dashed" THEN "line-dash-pattern" :> <<5, 6>>
    ELSE IF lineStyle = "dotted" THEN "line-dash-pattern" :> <<1, 2>>
    ELSE EmptyMap

\* The node rule with "border-opacity": vtConfig.borderWidth !== undefined ? 1 : 0.
NodeRuleOpacityWhenSet(vtConfig, backgroundImage) ==
    ("background-image" :> backgroundImage)
    @@ Opt("background-color", vtConfig, "color")
    @@ Opt("background-opacity", vtConfig, "backgroundOpacity")
    @@ Opt("border-color", vtConfig, "borderColor")
    @@ Opt("border-width", vtConfig, "borderWidth")
    @@ ("border-opacity" :> IF "borderWidth" \in DOMAIN vtConfig THEN 1 ELSE 0)
    @@ Opt("border-style", vtConfig, "borderStyle")
    @@ Opt("shape", vtConfig, "shape")
    @@ ("width" :> 24)
    @@ ("height" :> 24)

\* styles[`node[type="${vt}"]`] = { ... }
NodeRule(vtConfig, backgroundImage) ==
    ("background-image" :> backgroundImage)
    @@ Opt("background-color", vtConfig, "color")
    @@ Opt("background-opacity", vtConfig, "backgroundOpacity")
    @@ Opt("border-color", vtConfig, "borderColor")
    @@ Opt("border-width", vtConfig, "borderWidth")
    @@ ("border-opacity" :>
          IF "borderWidth" \in DOMAIN vtConfig /\ vtConfig.borderWidth # 0
          THEN 1 ELSE 0)
    @@ Opt("border-style", vtConfig, "borderStyle")
    @@ Opt("shape", vtConfig, "shape")
    @@ ("width" :> 24)
    @@ ("height" :> 24)

\* const mergedConfig = { ...userEdgeStyle, ...etConfig }: the config wins.
mergedConfigConfigWins(etConfig, userEdgeStyle) ==
    IF userEdgeStyle.found THEN Spread(userEdgeStyle.entry, etConfig) ELSE etConfig

\* const mergedConfig = { ...etConfig, ...userEdgeStyle }
mergedConfig(etConfig, userEdgeStyle) ==
    IF userEdgeStyle.found THEN Spread(etConfig, userEdgeStyle.entry) ELSE etConfig

\* styles[`edge[type="${et}"]`] = { label: el => ..., ... }: the second
\* assignment, which replaces the one holding the static label.
EdgeRule(etConfig, userEdgeStyle, registry) ==
    LET merged == mergedConfig(etConfig, userEdgeStyle)
        labelColor == IF "labelColor" \in DOMAIN merged /\ merged.labelColor # ""
                      THEN merged.labelColor ELSE "#17457b"
    IN  ("label" :> [resolver |-> registry])
        @@ ("color" :> IF isDark(labelColor) THEN "#FFFFFF" ELSE "#000000")
        @@ Opt("line-color", merged, "lineColor")
        @@ (IF "lineStyle" \in DOMAIN merged
            THEN ("line-style" :>
                    IF merged.lineStyle = "dotted" THEN "dashed" ELSE merged.lineStyle)
                 @@ LINE_PATTERN(merged.lineStyle)
            ELSE EmptyMap)
        @@ Opt("source-arrow-shape", merged, "sourceArrowStyle")
        @@ Opt("source-arrow-color", merged, "lineColor")
        @@ Opt("target-arrow-shape", merged, "targetArrowStyle")
        @@ Opt("target-arrow-color", merged, "lineColor")
        @@ Opt("text-background-opacity", merged, "labelBackgroundOpacity")
        @@ Opt("text-background-color", merged, "labelColor")
        @@ Opt("text-border-width", merged, "labelBorderWidth")
        @@ Opt("text-border-color", merged, "labelBorderColor")
        @@ Opt("text-border-style", merged, "labelBorderStyle")
        @@ Opt("width", merged, "lineThickness")
        @@ ("source-distance-from-node" :> 0)
        @@ ("target-distance-from-node" :> 0)

\* textTransform(et) of useTextTransform: the display text of a type id.
textTransform(et) ==
    CASE et = "knows" -> "Knows"
      [] et = "likes" -> "Likes"
      [] et = "hasAVeryLongRelationshipName" -> "Has A Very Long Relationship Name"
      [] OTHER -> et

\* let label = textTransform(et); if (label.length > 20)
\*     label = label.substring(0, 17) + "..."
staticLabel(et) ==
    LET label == textTransform(et)
    IN  IF Len(label) > 20 THEN SubSeq(label, 1, 17) \o "..." ELSE label

\* styles[`edge[type="${et}"]`] = { label, ... }: the first assignment.
StaticEdgeRule(et) ==
    ("label" :> [static |-> staticLabel(et)])
    @@ ("source-distance-from-node" :> 0)
    @@ ("target-distance-from-node" :> 0)

\* The rendered edge ids the canvas may draw.
RenderedEdgeIds == {"r1a", "r1b", "r2"}

\* getEdgeIdFromRenderedEdgeId: the logical edge a rendered edge stands for;
\* one logical edge may be drawn more than once.
getEdgeIdFromRenderedEdgeId(renderedEdgeId) ==
    IF renderedEdgeId \in {"r1a", "r1b"} THEN "e1" ELSE "e2"

MISSING_DISPLAY_VALUE == "(missing)"

\* The label function of an edge rule applied to a drawn edge:
\* displayEdges.get(getEdgeIdFromRenderedEdgeId(el.id())) of the Map the
\* function closed over.
label(rule, renderedEdgeId) ==
    LET captured == rule["label"].resolver
        edgeId == getEdgeIdFromRenderedEdgeId(renderedEdgeId)
    IN  IF edgeId \in DOMAIN captured
        THEN captured[edgeId].displayName
        ELSE MISSING_DISPLAY_VALUE

\* styles[selector] = rule
Assign(map, selector, rule) == (selector :> rule) @@ map

\* for (const etConfig of deferredEtConfigs) { ... }, from the i-th config on.
RECURSIVE EdgeLoop(_, _, _, _, _)
EdgeLoop(map, ets, i, styling, registry) ==
    IF i > Len(ets) THEN map
    ELSE LET selector == <<"edge", ets[i].type>>
             first == Assign(map, selector, StaticEdgeRule(ets[i].type))
         IN  EdgeLoop(Assign(first, selector,
                             EdgeRule(ets[i], edgeStyle(styling, ets[i].type), registry)),
                      ets, i + 1, styling, registry)

\* setStyles(styles) of a pass, dropped unless the pass is the latest triggered.
setStylesLatestOnly(published, pass, latest, result) ==
    IF pass = latest THEN result ELSE published

\* setStyles(prev => ({ ...prev, ...styles })): the pass's rules are patched
\* into the published map.
setStylesPatched(published, pass, latest, result) == result @@ published

\* setStyles(styles): the pass's map replaces the published one.
setStyles(published, pass, latest, result) == result

\* The effect: a new run of the async function, up to its first await. With no
\* vertex configs it runs to setStyles without suspending.
RunEffect(vts, ets, ref, registry, hp) ==
    LET k == Len(passes) + 1
        inflight == {j \in 1..Len(passes) : ~passes[j].done}
        pass == [vtConfigs |-> vts, etConfigs |-> ets, allStyling |-> ref,
                 displayEdges |-> registry, i |-> 1, styles |-> EmptyMap,
                 done |-> FALSE, inflight |-> inflight, snapshot |-> hp[ref]]
        result == EdgeLoop(EmptyMap, ets, 1, hp[ref], registry)
    IN  IF vts = <<>>
        THEN /\ passes' = Append(passes, [pass EXCEPT !.styles = result, !.done = TRUE])
             /\ styles' = setStyles(styles, k, k, result)
             /\ settled' = Append(settled, k)
        ELSE /\ passes' = Append(passes, pass)
             /\ UNCHANGED <<styles, settled>>

EngineInit ==
    /\ vtConfigs = <<Person>>
    /\ etConfigs = <<Knows>>
    /\ deferredVtConfigs = vtConfigs
    /\ deferredEtConfigs = etConfigs
    /\ displayEdges = [e \in {} |-> [displayName |-> ""]]
    /\ passes = <<>>
    /\ styles = EmptyMap
    /\ settled = <<>>

\* useGraphStyles is not mounted, or nothing it depends on changed.
EngineIdle == UNCHANGED engineVars

\* The effect on mount.
EngineMount ==
    /\ passes = <<>>
    /\ RunEffect(deferredVtConfigs, deferredEtConfigs, allStyling, displayEdges, heap)
    /\ UNCHANGED <<vtConfigs, etConfigs, deferredVtConfigs, deferredEtConfigs,
                   displayEdges>>

\* The commit after a store step: the effect runs again if allStyling changed.
StylingEffect ==
    /\ IF allStyling' # allStyling
       THEN RunEffect(deferredVtConfigs, deferredEtConfigs, allStyling',
                      displayEdges, heap')
       ELSE UNCHANGED <<passes, styles, settled>>
    /\ UNCHANGED <<vtConfigs, etConfigs, deferredVtConfigs, deferredEtConfigs,
                   displayEdges>>

\* useGraphStyles is mounted and its inputs have not stopped changing.
InputsChanging == passes # <<>> /\ Len(passes) < MaxPasses

\* The configuration source supplies new type configs: the render sees them at
\* once, the deferred values still hold the previous ones.
ConfigChange(vts, ets) ==
    /\ InputsChanging
    /\ <<vts, ets>> # <<vtConfigs, etConfigs>>
    /\ vtConfigs' = vts
    /\ etConfigs' = ets
    /\ UNCHANGED <<deferredVtConfigs, deferredEtConfigs, displayEdges, passes,
                   styles, settled>>
    /\ UNCHANGED storeVars

\* The deferred render commits with the latest configs and the effect runs.
DeferredCatchUp ==
    /\ passes # <<>>
    /\ <<deferredVtConfigs, deferredEtConfigs>> # <<vtConfigs, etConfigs>>
    /\ deferredVtConfigs' = vtConfigs
    /\ deferredEtConfigs' = etConfigs
    /\ RunEffect(vtConfigs, etConfigs, allStyling, displayEdges, heap)
    /\ UNCHANGED <<vtConfigs, etConfigs, displayEdges>>
    /\ UNCHANGED storeVars

\* The canvas changes the edge registry and the effect runs.
DisplayEdgesChange(registry) ==
    /\ InputsChanging
    /\ registry # displayEdges
    /\ displayEdges' = registry
    /\ RunEffect(deferredVtConfigs, deferredEtConfigs, allStyling, registry, heap)
    /\ UNCHANGED <<vtConfigs, etConfigs, deferredVtConfigs, deferredEtConfigs>>
    /\ UNCHANGED storeVars

\* `await renderNode(client, vtConfig)` of pass k resolves: the node rule is
\* built; after the last vertex config the edge loop runs and setStyles is called.
RenderSettles(k) ==
    LET p == passes[k]
        vtConfig == p.vtConfigs[p.i]
        withNode == Assign(p.styles, <<"node", vtConfig.type>>,
                           NodeRule(vtConfig, renderNode(vtConfig)))
        result == EdgeLoop(withNode, p.etConfigs, 1, heap[p.allStyling], p.displayEdges)
    IN  /\ ~p.done
        /\ IF p.i < Len(p.vtConfigs)
           THEN /\ passes' = [passes EXCEPT ![k].i = p.i + 1, ![k].styles = withNode]
                /\ UNCHANGED <<styles, settled>>
           ELSE /\ passes' = [passes EXCEPT ![k].styles = result, ![k].done = TRUE]
                /\ styles' = setStyles(styles, k, Len(passes), result)
                /\ settled' = Append(settled, k)
        /\ UNCHANGED <<vtConfigs, etConfigs, deferredVtConfigs, deferredEtConfigs,
                       displayEdges>>
        /\ UNCHANGED storeVars

(* ------------------------------------------------------------------ *)
(* Specifications                                                     *)
(* ------------------------------------------------------------------ *)

\* The provider with consumers that call useEdgeStyling only: useGraphStyles
\* is not mounted and its state stays as constructed.
Init == StoreInit /\ EngineInit

Next ==
    \/ MountEffects /\ EngineIdle
    \/ GetItemSettles /\ EngineIdle
    \/ LoadData /\ EngineIdle
    \/ \E t \in Types, s \in UpdatedStyles : SetEdgeStyle(t, s) /\ EngineIdle
    \/ \E t \in Types : ResetEdgeStyle(t) /\ EngineIdle

Spec == Init /\ [][Next]_vars

\* The event loop runs the mount effects and every continuation that is ready.
FairSpec ==
    /\ Spec
    /\ WF_vars(MountEffects /\ EngineIdle)
    /\ WF_vars(LoadData /\ EngineIdle)

\* The provider with useGraphStyles mounted below it in the same commit.
EngineSpecInit ==
    /\ StoreInit
    /\ EngineInit
    /\ durable \in EngineStoredRecords

EngineNext ==
    \/ MountEffects /\ EngineMount
    \/ GetItemSettles /\ EngineIdle
    \/ LoadData /\ StylingEffect
    \/ \E t \in EngineTypes, s \in EngineStyles :
          InputsChanging /\ SetEdgeStyle(t, s) /\ StylingEffect
    \/ \E t \in EngineTypes : InputsChanging /\ ResetEdgeStyle(t) /\ StylingEffect
    \/ \E c \in ConfigChoices : ConfigChange(c[1], c[2])
    \/ DeferredCatchUp
    \/ \E de \in DisplayEdgesChoices : DisplayEdgesChange(de)
    \/ \E k \in 1..Len(passes) : RenderSettles(k)

EngineSpec == EngineSpecInit /\ [][EngineNext]_vars

\* The provider with its durable writes settling, each at any time after it
\* was issued, in any order, with either outcome.
DurableNext ==
    \/ MountEffects /\ EngineIdle
    \/ GetItemSettles /\ EngineIdle
    \/ LoadData /\ EngineIdle
    \/ \E t \in EngineTypes, s \in EngineStyles : SetEdgeStyle(t, s) /\ EngineIdle
    \/ \E t \in EngineTypes : ResetEdgeStyle(t) /\ EngineIdle
    \/ \E i \in 1..Len(writes), ok \in BOOLEAN : SetItemSettles(i, ok) /\ EngineIdle

DurableSpec == EngineSpecInit /\ [][DurableNext]_vars

\* The provider and its consumers, and components rendered outside of it.
ScopeNext ==
    \/ MountEffects /\ EngineIdle
    \/ GetItemSettles /\ EngineIdle
    \/ LoadData /\ EngineIdle
    \/ \E t \in EngineTypes, s \in EngineStyles : SetEdgeStyle(t, s) /\ EngineIdle
    \/ \E t \in EngineTypes : ResetEdgeStyle(t) /\ EngineIdle
    \/ \E call \in HookCalls : OutsideUse(call) /\ EngineIdle

ScopeSpec == EngineSpecInit /\ [][ScopeNext]_vars

\* The provider is Ready after a load that settled with `rec` (a record, or
\* null) and no mutation has been made yet.
ReadyStore(rec) ==
    /\ heap = IF rec.present THEN <<EmptyStyling, rec.value>> ELSE <<EmptyStyling>>
    /\ allStyling = IF rec.present THEN 2 ELSE 1
    /\ isLoading = FALSE
    /\ loadPc = "done"
    /\ stored = rec
    /\ outcome = "resolved"
    /\ durable = rec
    /\ reads = 1
    /\ writes = <<rec.value>>
    /\ landed = <<>>
    /\ outside = NoCall
    /\ mutations = 0
    /\ lastOp = NoOp

\* Rule construction: useGraphStyles mounts under a Ready provider and runs
\* one pass, for every combination of type configs and stored overrides.
RuleInit ==
    /\ \E rec \in RuleStoredRecords : ReadyStore(rec)
    /\ vtConfigs \in RuleVertexConfigs
    /\ etConfigs \in RuleEdgeConfigs
    /\ deferredVtConfigs = vtConfigs
    /\ deferredEtConfigs = etConfigs
    /\ displayEdges = [e \in {"e1"} |-> [displayName |-> "Knows"]]
    /\ passes = <<>>
    /\ styles = EmptyMap
    /\ settled = <<>>

RuleNext ==
    \/ EngineMount /\ UNCHANGED storeVars
    \/ \E k \in 1..Len(passes) : RenderSettles(k)

RuleSpec == RuleInit /\ [][RuleNext]_vars

(* ------------------------------------------------------------------ *)
(* Properties of the preference store                                 *)
(* ------------------------------------------------------------------ *)

\* The in-memory UserStyling.
Current == heap[allStyling]

\* A lookup result that holds every field of `style` with its value.
Reflects(got, style) ==
    /\ got.found
    /\ \A f \in DOMAIN style : f \in DOMAIN got.entry /\ got.entry[f] = style[f]

\* No two entries of an edges array share a type id.
UniqueTypes(es) ==
    \A i, j \in 1..Len(es) : es[i].type = es[j].type => i = j

\* This step is a setEdgeStyle / resetEdgeStyle call.
MutationStep == mutations' = mutations + 1

\* This step takes the store from Loading to Ready.
ReadyStep == isLoading /\ ~isLoading'

\* C1: while the store is loading no durable write has been issued, and an
\* upsert or reset made while loading shows in the in-memory state at once:
\* the state is a new record in which get(type) holds the upserted fields, or
\* is absent after a reset, and the step issues no write.
C1_PreReadyWriteSuppression ==
    /\ [](isLoading => writes = <<>>)
    /\ [][(isLoading /\ MutationStep) =>
            /\ allStyling' # allStyling
            /\ writes' = <<>>
            /\ lastOp'.kind = "upsert" =>
                   Reflects(edgeStyle(Current', lastOp'.type), lastOp'.style)
            /\ lastOp'.kind = "reset" =>
                   ~edgeStyle(Current', lastOp'.type).found]_vars

\* C1 witness: still loading, an upsert has been applied in memory, no write.
C1_Witness ==
    /\ isLoading
    /\ lastOp.kind = "upsert"
    /\ Reflects(edgeStyle(Current, lastOp.type), lastOp.style)
    /\ writes = <<>>

\* C2 (as claimed): once the store is Ready, an upsert applied while it was
\* loading (and not followed by another mutation) is still what get(type)
\* returns, whatever the durable read returned.
C2_LoadNeverClobbers ==
    (~isLoading /\ lastOp.kind = "upsert" /\ lastOp.loading) =>
        Reflects(edgeStyle(Current, lastOp.type), lastOp.style)

\* C3 (as claimed): the step from Loading to Ready issues no durable write, and
\* every write is issued by a mutation made after Ready.
C3_NoFlushAtReady ==
    /\ [][ReadyStep => writes' = writes]_vars
    /\ [][writes' # writes => (~isLoading /\ MutationStep)]_vars

\* C3 (amended): the step from Loading to Ready itself issues exactly one
\* durable write, the first of the session, and its payload is the in-memory
\* record at that moment; after Ready a further write is issued only by a
\* mutation.
C3_FlushAtReady ==
    /\ [][ReadyStep => writes' = <<Current'>>]_vars
    /\ [][(writes' # writes /\ ~ReadyStep) => (~isLoading /\ MutationStep)]_vars

\* C3 witness: Ready, no mutation since, and the single write issued carries
\* an upsert that was made while loading.
C3_Witness ==
    /\ ~isLoading
    /\ lastOp.kind = "upsert"
    /\ lastOp.loading
    /\ Len(writes) = 1
    /\ Reflects(edgeStyle(writes[1], lastOp.type), lastOp.style)

\* C4 (as claimed): at the step to Ready the in-memory state is the loaded
\* record if the read returned one, and the empty default otherwise.
C4_ReadyStateLoadedOrEmpty ==
    [][ReadyStep =>
        Current' = IF outcome = "resolved" /\ stored.present
                   THEN stored.value
                   ELSE EmptyStyling]_vars

\* C4 (amended): at the step to Ready the in-memory state is the loaded record
\* if the read returned one; if it returned no record or failed, the state is
\* left as it was: the empty default with the mutations made while loading.
C4_ReadyStateLoadedOrKept ==
    [][ReadyStep =>
        /\ Current' = IF outcome = "resolved" /\ stored.present
                      THEN stored.value
                      ELSE Current
        /\ (mutations = 0 /\ ~stored.present) => Current' = EmptyStyling]_vars

\* C4 witness: Ready after a read that returned no record, with the entry
\* upserted while loading still in memory.
C4_Witness ==
    /\ ~isLoading
    /\ outcome = "resolved"
    /\ ~stored.present
    /\ lastOp.loading
    /\ lastOp.kind = "upsert"
    /\ Current # EmptyStyling

\* C5: the store issues exactly one durable read; once that read has settled
\* the store reaches Ready; once Ready it is never loading again.
C5_LoadNeverStuck ==
    /\ [](reads <= 1)
    /\ [](loadPc # "init" => reads = 1)
    /\ (outcome # "none") ~> ~isLoading
    /\ [][~isLoading => ~isLoading']_vars

\* C5 witness: Ready after the one read failed.
C5_Witness ==
    /\ ~isLoading
    /\ loadPc = "done"
    /\ outcome = "rejected"
    /\ reads = 1

\* C6: every upsert or reset applied while Ready issues one durable write in
\* the same step; its payload is the whole in-memory record after the
\* mutation, which holds the mutation's effect.
C6_ReadyMutationWritesAll ==
    [][(~isLoading /\ MutationStep) =>
        /\ Len(writes') = Len(writes) + 1
        /\ SubSeq(writes', 1, Len(writes)) = writes
        /\ writes'[Len(writes')] = Current'
        /\ lastOp'.kind = "upsert" =>
               Reflects(edgeStyle(writes'[Len(writes')], lastOp'.type), lastOp'.style)
        /\ lastOp'.kind = "reset" =>
               ~edgeStyle(writes'[Len(writes')], lastOp'.type).found]_vars

\* C6 witness: a reset, made while Ready, of a type that had no entry, and the
\* write it issued.
C6_Witness ==
    /\ ~isLoading
    /\ lastOp.kind = "reset"
    /\ ~lastOp.loading
    /\ ~lastOp.prior.found
    /\ Len(writes) >= 2
    /\ writes[Len(writes)] = Current

\* C7 (as claimed): no two entries of the in-memory edge overrides, nor of any
\* record written, share a type id, whatever record the load returned.
C7_TypeIdsUnique ==
    /\ UniqueTypes(Current.edges)
    /\ \A i \in 1..Len(writes) : UniqueTypes(writes[i].edges)

\* C8: after upsert(T, S), get(T) is an entry of type T whose fields are those
\* of S and of the prior entry for T, with S's value for every field of S and
\* the prior entry's value for every other field; after reset(T), get(T) is
\* absent.
C8_UpsertResetRoundTrip ==
    [][MutationStep =>
        LET got == edgeStyle(Current', lastOp'.type)
            prior == lastOp'.prior
            S == lastOp'.style
        IN  /\ lastOp'.kind = "reset" => ~got.found
            /\ lastOp'.kind = "upsert" =>
                  /\ Reflects(got, S)
                  /\ got.entry.type = lastOp'.type
                  /\ DOMAIN got.entry =
                        {"type"} \cup DOMAIN S
                          \cup (IF prior.found THEN DOMAIN prior.entry ELSE {})
                  /\ prior.found =>
                        \A f \in DOMAIN prior.entry \ DOMAIN S :
                            got.entry[f] = prior.entry[f]]_vars

\* C8 witness: an upsert over an existing entry that changed one of its fields
\* and kept another.
C8_Witness ==
    /\ lastOp.kind = "upsert"
    /\ lastOp.prior.found
    /\ \E f \in DOMAIN lastOp.style :
          f \in DOMAIN lastOp.prior.entry /\ lastOp.prior.entry[f] # lastOp.style[f]
    /\ \E f \in DOMAIN lastOp.prior.entry \ (DOMAIN lastOp.style \cup {"type"}) :
          edgeStyle(Current, lastOp.type).entry[f] = lastOp.prior.entry[f]
    /\ Reflects(edgeStyle(Current, lastOp.type), lastOp.style)

(* ------------------------------------------------------------------ *)
(* Properties of the style resolution effect                          *)
(* ------------------------------------------------------------------ *)

\* The last index of a config sequence that holds the given type.
LastOfType(configs, type) ==
    CHOOSE i \in 1..Len(configs) :
        /\ configs[i].type = type
        /\ \A j \in 1..Len(configs) : configs[j].type = type => j <= i

\* The Style Map of given inputs, selector by selector: one node rule per
\* vertex type and one edge rule per edge type.
StyleMapOf(vts, ets, styling, registry) ==
    [sel \in {<<"node", vts[i].type>> : i \in 1..Len(vts)}
              \cup {<<"edge", ets[i].type>> : i \in 1..Len(ets)} |->
        IF sel[1] = "node"
        THEN LET c == vts[LastOfType(vts, sel[2])] IN NodeRule(c, renderNode(c))
        ELSE LET c == ets[LastOfType(ets, sel[2])]
             IN  EdgeRule(c, edgeStyle(styling, c.type), registry)]

\* The Style Map of the inputs pass k was triggered with.
PassOutput(k) ==
    StyleMapOf(passes[k].vtConfigs, passes[k].etConfigs,
               heap[passes[k].allStyling], passes[k].displayEdges)

\* Every pass triggered has called setStyles.
AllPassesSettled == \A k \in 1..Len(passes) : passes[k].done

\* C9: no pass is cancelled: a pass in flight stays in flight with the inputs
\* it captured until it calls setStyles, whatever is triggered meanwhile; and
\* the published Style Map is always the output of the pass that settled
\* last, which may be an earlier-triggered pass than one that settled before.
C9_LastSettledPassIsPublished ==
    /\ [](settled # <<>> => styles = PassOutput(settled[Len(settled)]))
    /\ [][\A k \in 1..Len(passes) :
            ~passes[k].done =>
                /\ passes'[k].vtConfigs = passes[k].vtConfigs
                /\ passes'[k].etConfigs = passes[k].etConfigs
                /\ passes'[k].allStyling = passes[k].allStyling
                /\ passes'[k].displayEdges = passes[k].displayEdges
                /\ passes'[k].done =>
                      (styles' = PassOutput(k) /\ settled' = Append(settled, k))]_vars

\* C9 witness: two passes were in flight together, both have settled, the one
\* triggered earlier settled last, and its output, which differs from the
\* later pass's, is the published map.
C9_Witness ==
    \E k1, k2 \in 1..Len(passes) :
        /\ k1 < k2
        /\ k1 \in passes[k2].inflight
        /\ AllPassesSettled
        /\ settled[Len(settled)] = k1
        /\ PassOutput(k1) # PassOutput(k2)
        /\ styles = PassOutput(k1)

\* C10 (as claimed): when the store is Ready, the deferred configs have caught
\* up with the live ones and no pass is in flight, the published Style Map is
\* the Style Map of the current inputs.
C10_Convergence ==
    ( /\ passes # <<>>
      /\ AllPassesSettled
      /\ ~isLoading
      /\ deferredVtConfigs = vtConfigs
      /\ deferredEtConfigs = etConfigs )
    => styles = StyleMapOf(vtConfigs, etConfigs, Current, displayEdges)

\* The selectors of one pass's input: one per vertex type and one per edge type.
SelectorsOf(vts, ets) ==
    {<<"node", vts[i].type>> : i \in 1..Len(vts)}
        \cup {<<"edge", ets[i].type>> : i \in 1..Len(ets)}

\* C11: the published Style Map is the initial empty map or the whole map one
\* single pass built: its selectors are exactly those of that pass's vertex and
\* edge types, and every rule is the one that pass built. A pass in flight has
\* published none of its rules.
C11_AtomicCompletePublication ==
    \/ styles = EmptyMap /\ settled = <<>>
    \/ \E k \in 1..Len(passes) :
          /\ passes[k].done
          /\ DOMAIN styles = SelectorsOf(passes[k].vtConfigs, passes[k].etConfigs)
          /\ \A sel \in DOMAIN styles : styles[sel] = passes[k].styles[sel]
          /\ styles = passes[k].styles

\* C11 witness: a pass over two vertex types has built its first node rule and
\* is waiting for the second render, while the published map is the complete
\* map of another pass and lacks that pass's extra selector.
C11_Witness ==
    \E k \in 1..Len(passes) :
        /\ ~passes[k].done
        /\ passes[k].i = 2
        /\ passes[k].styles # EmptyMap
        /\ styles # EmptyMap
        /\ <<"node", "Company">> \notin DOMAIN styles

\* The entries of a UserStyling record whose type id differs from `type`, in
\* their order.
OthersOf(styling, type) ==
    IF styling.hasEdges
    THEN SelectSeq(styling.edges, LAMBDA v : v.type # type)
    ELSE <<>>

\* C19: upsert(T, S) and reset(T) leave the entries of every other type
\* unchanged in content and relative order and leave the Loading/Ready status
\* unchanged; reset(T) on a store with no entry for T leaves the override
\* sequence unchanged.
C19_MutationFrame ==
    [][MutationStep =>
        /\ OthersOf(Current', lastOp'.type) = OthersOf(Current, lastOp'.type)
        /\ isLoading' = isLoading
        /\ (lastOp'.kind = "reset" /\ ~lastOp'.prior.found) =>
              /\ Current'.hasEdges = Current.hasEdges
              /\ Current'.edges = Current.edges]_vars

\* C19 witness: a reset removed the entries of its type from a store that
\* holds an entry of another type in front of them, which is still there.
C19_Witness ==
    /\ lastOp.kind = "reset"
    /\ lastOp.prior.found
    /\ lastOp.type = "knows"
    /\ ~edgeStyle(Current, "knows").found
    /\ Current.hasEdges
    /\ Current.edges = <<[type |-> "likes", lineStyle |-> "solid"]>>

\* C18: the record object a pass captured still holds what it held when the
\* pass was triggered, whatever upsert, reset or config change happened since,
\* and the map a finished pass built is the Style Map of the type configs,
\* override snapshot and registry it was triggered with.
C18_SnapshotIsolation ==
    \A k \in 1..Len(passes) :
        /\ heap[passes[k].allStyling] = passes[k].snapshot
        /\ passes[k].done =>
              passes[k].styles = StyleMapOf(passes[k].vtConfigs, passes[k].etConfigs,
                                            passes[k].snapshot, passes[k].displayEdges)

\* C18 witness: a store mutation triggered a second pass while the first was
\* suspended on asset rendering; the first pass has finished since, with the
\* map of its own snapshot, which is not the map of the current overrides.
C18_Witness ==
    \E k1, k2 \in 1..Len(passes) :
        /\ k1 < k2
        /\ k1 \in passes[k2].inflight
        /\ passes[k1].snapshot # passes[k2].snapshot
        /\ passes[k1].allStyling # allStyling
        /\ passes[k1].done
        /\ passes[k1].styles # StyleMapOf(passes[k1].vtConfigs, passes[k1].etConfigs,
                                         Current, passes[k1].displayEdges)

\* The stylable edge fields an EdgeTypeConfig and an override share.
StylableFields ==
    {"lineColor", "lineStyle", "lineThickness", "sourceArrowStyle",
     "targetArrowStyle", "labelColor", "labelBackgroundOpacity",
     "labelBorderWidth", "labelBorderColor", "labelBorderStyle"}

\* The rule keys that carry a stylable field as it is.
CopiedTo(F) ==
    CASE F = "lineColor" -> {"line-color"}
      [] F = "lineThickness" -> {"width"}
      [] F = "sourceArrowStyle" -> {"source-arrow-shape"}
      [] F = "targetArrowStyle" -> {"target-arrow-shape"}
      [] F = "labelColor" -> {"text-background-color"}
      [] F = "labelBackgroundOpacity" -> {"text-background-opacity"}
      [] F = "labelBorderWidth" -> {"text-border-width"}
      [] F = "labelBorderColor" -> {"text-border-color"}
      [] F = "labelBorderStyle" -> {"text-border-style"}
      [] OTHER -> {}

\* The pass whose map is published.
Publisher == passes[settled[Len(settled)]]

\* The edge type configs of the publishing pass that own a selector (the last
\* config of each type).
PublishedEdgeConfigs ==
    {Publisher.etConfigs[i] : i \in {j \in 1..Len(Publisher.etConfigs) :
        j = LastOfType(Publisher.etConfigs, Publisher.etConfigs[j].type)}}

\* C13: for every edge type T of the published map and every stylable field F,
\* the merged style's F is the override's F if an override for T exists and
\* has F, and the EdgeTypeConfig's F otherwise, and that is the value the edge
\* rule carries for F; with no override for T the merged style is the
\* EdgeTypeConfig.
C13_FieldPrecedence ==
    settled # <<>> =>
        \A cfg \in PublishedEdgeConfigs :
            LET ov == edgeStyle(Publisher.snapshot, cfg.type)
                merged == mergedConfig(cfg, ov)
                rule == styles[<<"edge", cfg.type>>]
            IN  /\ \A F \in StylableFields :
                      LET from == IF ov.found /\ F \in DOMAIN ov.entry
                                  THEN ov.entry ELSE cfg
                      IN  /\ F \in DOMAIN merged <=> F \in DOMAIN from
                          /\ F \in DOMAIN from => merged[F] = from[F]
                          /\ \A key \in CopiedTo(F) :
                                /\ key \in DOMAIN rule <=> F \in DOMAIN from
                                /\ F \in DOMAIN from => rule[key] = from[F]
                /\ ~ov.found => merged = cfg

\* C13 witness: the override {type: "knows", lineThickness: 4} over the config
\* with lineThickness 1 and lineColor #000000 is published as width 4 and
\* line-color #000000.
C13_Witness ==
    /\ settled # <<>>
    /\ Knows \in PublishedEdgeConfigs
    /\ edgeStyle(Publisher.snapshot, "knows") =
          [found |-> TRUE, entry |-> [type |-> "knows", lineThickness |-> 4]]
    /\ styles[<<"edge", "knows">>]["width"] = 4
    /\ styles[<<"edge", "knows">>]["line-color"] = "#000000"

\* C14: in every published edge rule, merged line style dotted gives
\* line-style dashed with dash pattern [1,2], dashed gives dashed with [5,6],
\* solid gives solid with no dash pattern; and the source and target arrow
\* colors are the line color.
C14_LineStyleNormalization ==
    settled # <<>> =>
        \A cfg \in PublishedEdgeConfigs :
            LET merged == mergedConfig(cfg, edgeStyle(Publisher.snapshot, cfg.type))
                rule == styles[<<"edge", cfg.type>>]
                has(key) == key \in DOMAIN rule
            IN  /\ "lineStyle" \in DOMAIN merged =>
                      /\ merged.lineStyle = "dotted" =>
                            /\ rule["line-style"] = "dashed"
                            /\ has("line-dash-pattern")
                            /\ rule["line-dash-pattern"] = <<1, 2>>
                      /\ merged.lineStyle = "dashed" =>
                            /\ rule["line-style"] = "dashed"
                            /\ has("line-dash-pattern")
                            /\ rule["line-dash-pattern"] = <<5, 6>>
                      /\ merged.lineStyle = "solid" =>
                            /\ rule["line-style"] = "solid"
                            /\ ~has("line-dash-pattern")
                /\ has("source-arrow-color") <=> has("line-color")
                /\ has("target-arrow-color") <=> has("line-color")
                /\ has("line-color") =>
                      /\ rule["source-arrow-color"] = rule["line-color"]
                      /\ rule["target-arrow-color"] = rule["line-color"]

\* C14 witness: a published rule whose merged line style is dotted because the
\* override says so over a solid config, with the override's line color on
\* both arrows.
C14_Witness ==
    /\ settled # <<>>
    /\ Knows \in PublishedEdgeConfigs
    /\ edgeStyle(Publisher.snapshot, "knows").found
    /\ mergedConfig(Knows, edgeStyle(Publisher.snapshot, "knows")).lineStyle = "dotted"
    /\ styles[<<"edge", "knows">>]["line-style"] = "dashed"
    /\ styles[<<"edge", "knows">>]["line-dash-pattern"] = <<1, 2>>
    /\ styles[<<"edge", "knows">>]["source-arrow-color"] = "#112233"

\* The vertex type configs of the publishing pass that own a selector.
PublishedVertexConfigs ==
    {Publisher.vtConfigs[i] : i \in {j \in 1..Len(Publisher.vtConfigs) :
        j = LastOfType(Publisher.vtConfigs, Publisher.vtConfigs[j].type)}}

\* What C17 says of every published node rule but its border-opacity.
NodeRuleBasics(c, rule) ==
    /\ rule["background-image"] = renderNode(c)
    /\ "background-color" \in DOMAIN rule <=> "color" \in DOMAIN c
    /\ "color" \in DOMAIN c => rule["background-color"] = c.color
    /\ rule["width"] = 24
    /\ rule["height"] = 24

\* C17 (as claimed): every published node rule has the renderer's descriptor
\* as background-image, the config color as background-color, width and
\* height 24, and border-opacity 1 if the config's border width is set, for
\* every set value including 0, and 0 if it is not set.
C17_NodeRuleOpacityWhenSet ==
    settled # <<>> =>
        \A c \in PublishedVertexConfigs :
            LET rule == styles[<<"node", c.type>>]
            IN  /\ NodeRuleBasics(c, rule)
                /\ rule["border-opacity"] = IF "borderWidth" \in DOMAIN c THEN 1 ELSE 0

\* C17 (amended): every published node rule has the renderer's descriptor as
\* background-image, the config color as background-color, width and height
\* 24, and border-opacity 1 if the config's border width is set to a value
\* other than 0, and 0 if it is not set or is 0.
C17_NodeRuleOpacityWhenNonZero ==
    settled # <<>> =>
        \A c \in PublishedVertexConfigs :
            LET rule == styles[<<"node", c.type>>]
            IN  /\ NodeRuleBasics(c, rule)
                /\ rule["border-opacity"] =
                      IF "borderWidth" \in DOMAIN c /\ c.borderWidth # 0 THEN 1 ELSE 0

\* C17 witness: one published map holds the rule of a config with border
\* width 2, with border-opacity 1, and the rule of a config with border width
\* 0, with border-width 0 and border-opacity 0.
C17_Witness ==
    /\ settled # <<>>
    /\ PublishedVertexConfigs = {Person, Place}
    /\ styles[<<"node", "Person">>]["border-opacity"] = 1
    /\ styles[<<"node", "Place">>]["border-width"] = 0
    /\ styles[<<"node", "Place">>]["border-opacity"] = 0

\* C15 (as claimed): the label of every published edge rule is the resolver,
\* never the static truncated label, and applied to a rendered edge id it
\* gives the display name of the id's logical edge if the live edge registry
\* holds that edge, and the missing-value sentinel otherwise.
C15_LiveLabelResolution ==
    \A sel \in DOMAIN styles :
        sel[1] = "edge" =>
            /\ DOMAIN styles[sel]["label"] = {"resolver"}
            /\ \A r \in RenderedEdgeIds :
                  LET edgeId == getEdgeIdFromRenderedEdgeId(r)
                  IN  label(styles[sel], r) =
                          IF edgeId \in DOMAIN displayEdges
                          THEN displayEdges[edgeId].displayName
                          ELSE MISSING_DISPLAY_VALUE

\* A step in which a localForage.setItem call rejects.
FailedWriteStep ==
    /\ Len(landed') = Len(landed) + 1
    /\ ~landed'[Len(landed')].ok

\* C12: the step in which a durable write fails changes nothing of the
\* provider but the fact that the write has settled: get returns for every
\* type what it returned before, the durable record, the status and the last
\* mutation's record are untouched and no write is issued; and once a write
\* has failed, a further write is issued only by a mutation.
C12_WriteFailureIsSilent ==
    [][/\ FailedWriteStep =>
            /\ \A t \in Types : edgeStyle(Current', t) = edgeStyle(Current, t)
            /\ <<heap, allStyling, isLoading, loadPc, durable, mutations, lastOp>>' =
                  <<heap, allStyling, isLoading, loadPc, durable, mutations, lastOp>>
            /\ writes' = writes
       /\ ((\E j \in 1..Len(landed) : ~landed[j].ok) /\ writes' # writes) =>
            MutationStep]_vars

\* C12 witness: the write of the latest mutation has failed, no write has been
\* issued since, and the override is in memory and not in the durable record.
C12_Witness ==
    /\ \E j \in 1..Len(landed) : ~landed[j].ok /\ landed[j].write = Len(writes)
    /\ lastOp.kind = "upsert"
    /\ ~lastOp.loading
    /\ Reflects(edgeStyle(Current, lastOp.type), lastOp.style)
    /\ durable # Record(Current)

\* Every write issued has landed, successfully and in the order of issue, and
\* the store is Ready.
Quiescent ==
    /\ ~isLoading
    /\ Len(landed) = Len(writes)
    /\ \A j \in 1..Len(landed) : landed[j].ok /\ landed[j].write = j

\* At quiescence the durable record is the in-memory record.
DurableIsCurrent == Quiescent => durable = Record(Current)

\* C20 (as claimed): once the store is Ready and every write issued has landed,
\* successfully and in order, the durable record equals the in-memory state
\* and holds the effect of an upsert made while the store was Loading.
C20_QuiescentDurability ==
    Quiescent =>
        /\ durable = Record(Current)
        /\ (lastOp.kind = "upsert" /\ lastOp.loading) =>
              Reflects(edgeStyle(durable.value, lastOp.type), lastOp.style)

\* C16: a use of the override API (get, upsert, reset, all overrides) with no
\* provider in scope ends in the error thrown by useEdgeStylingContext,
\* returns nothing, and leaves the store's state as it was.
C16_FailFastOutsideProvider ==
    /\ [](outside.api # "none" => outside.threw /\ ~outside.returned)
    /\ [][outside' # outside =>
            /\ outside'.threw
            /\ <<heap, allStyling, isLoading, durable, writes, mutations, lastOp>>' =
                  <<heap, allStyling, isLoading, durable, writes, mutations, lastOp>>]_vars

\* C16 witness: an upsert attempted outside the provider has thrown while the
\* provider's store is Ready and holds overrides.
C16_Witness ==
    /\ outside.api = "upsert"
    /\ outside.threw
    /\ ~outside.returned
    /\ ~isLoading
    /\ Current.hasEdges
    /\ Current.edges # <<>>

====
